---------------------------- MODULE Spec2Model ----------------------------
(***************************************************************************)
(* go-forth: a terminal HTTP client.  The model follows src/main.go        *)
(* (lines 1-220): the Bubble Tea model and its Update handler, FetchData,  *)
(* the validation helpers and the JSON pretty-printer.  Text is modelled   *)
(* by TLA+ strings, one character per byte (ASCII only).                   *)
(***************************************************************************)
EXTENDS Integers, Sequences, FiniteSets, TLC

VARIABLES
    revision,      \* which Update of the repository runs: "url" (src/main.go) or "method"
    colorProfile,  \* lipgloss colour profile of the terminal, fixed at start-up
    urlInput,      \* m.textInput.Value()
    methodInput,   \* m.methodInput.Value() (revision "method" only)
    text,          \* m.text
    quitting,      \* m.quitting
    last,          \* what the last Update call did (history variable)
    call           \* a direct call of one of the pure helpers: its input and result

vars == <<revision, colorProfile, urlInput, methodInput, text, quitting, last, call>>

-----------------------------------------------------------------------------
(* Strings: the package "strings" and byte slicing.                        *)

Char(s, i) == SubSeq(s, i, i)

Slice(s, from, to) == SubSeq(s, from + 1, to)          \* s[from:to]

HasPrefix(s, p) == Len(s) >= Len(p) /\ SubSeq(s, 1, Len(p)) = p

HasSuffix(s, p) == Len(s) >= Len(p) /\ SubSeq(s, Len(s) - Len(p) + 1, Len(s)) = p

Contains(s, sub) ==
    \E i \in 1..(Len(s) - Len(sub) + 1) : SubSeq(s, i, i + Len(sub) - 1) = sub

\* strings.Index, 1-based; 0 when sub does not occur
Index(s, sub) ==
    LET hits == {i \in 1..(Len(s) - Len(sub) + 1) : SubSeq(s, i, i + Len(sub) - 1) = sub}
    IN  IF hits = {} THEN 0 ELSE CHOOSE i \in hits : \A j \in hits : i <= j

RECURSIVE Repeat(_, _)
Repeat(s, n) == IF n <= 0 THEN "" ELSE s \o Repeat(s, n - 1)

RECURSIVE Count(_, _)
Count(s, c) ==
    IF s = "" THEN 0
    ELSE (IF Char(s, 1) = c THEN 1 ELSE 0) + Count(SubSeq(s, 2, Len(s)), c)

Lower == <<"a","b","c","d","e","f","g","h","i","j","k","l","m",
           "n","o","p","q","r","s","t","u","v","w","x","y","z">>

Upper == <<"A","B","C","D","E","F","G","H","I","J","K","L","M",
           "N","O","P","Q","R","S","T","U","V","W","X","Y","Z">>

Digits == <<"0","1","2","3","4","5","6","7","8","9">>

IsLetter(c) == \E i \in 1..26 : c = Lower[i] \/ c = Upper[i]

IsDigit(c) == \E i \in 1..10 : c = Digits[i]

DigitValue(c) == (CHOOSE i \in 1..10 : Digits[i] = c) - 1

UpperChar(c) == IF \E i \in 1..26 : c = Lower[i]
                THEN Upper[CHOOSE i \in 1..26 : c = Lower[i]] ELSE c

LowerChar(c) == IF \E i \in 1..26 : c = Upper[i]
                THEN Lower[CHOOSE i \in 1..26 : c = Upper[i]] ELSE c

RECURSIVE ToUpper(_)
ToUpper(s) == IF s = "" THEN "" ELSE UpperChar(Char(s, 1)) \o ToUpper(SubSeq(s, 2, Len(s)))

RECURSIVE ToLower(_)
ToLower(s) == IF s = "" THEN "" ELSE LowerChar(Char(s, 1)) \o ToLower(SubSeq(s, 2, Len(s)))

\* fmt.Sprintf("%d", n) and fmt.Sprintf("%v", float64(n)) for a natural n < 1e21
RECURSIVE Itoa(_)
Itoa(n) == IF n < 10 THEN Digits[n + 1] ELSE Itoa(n \div 10) \o Digits[(n % 10) + 1]

-----------------------------------------------------------------------------
(* JSON values, as json.Unmarshal builds them in an interface{}:           *)
(*   nil, bool, float64, string, []interface{}, map[string]interface{}.    *)
(* A map is a set of <<key, value>> pairs with pairwise different keys.    *)

JNull == [t |-> "null"]

JBool(b) == [t |-> "bool", b |-> b]

JNum(n) == [t |-> "num", n |-> n]

JStr(s) == [t |-> "str", s |-> s]

JArr(items) == [t |-> "arr", items |-> items]

JObj(kv) == [t |-> "obj", kv |-> kv]

MapKeys(kv) == {e[1] : e \in kv}

MapGet(kv, k) == (CHOOSE e \in kv : e[1] = k)[2]

MapSet(kv, k, v) == {e \in kv : e[1] # k} \cup {<<k, v>>}       \* m[k] = v

-----------------------------------------------------------------------------
(* encoding/json: json.Unmarshal(data, &v) for v an interface{} or a       *)
(* json.RawMessage.  The scanner reads the text left to right and stops at *)
(* the first byte that cannot continue a JSON text.  Covered: objects,     *)
(* arrays, strings with the escapes \" \\ \/ \n \t, unsigned integers and  *)
(* the three literals; the bodies of this model use no other JSON syntax   *)
(* (no sign, fraction, exponent or \u escape).                             *)

JSONSpace == {" ", "\t", "\r", "\n"}

ParseOk(v, i) == [ok |-> TRUE, v |-> v, i |-> i]

ParseErr(msg) == [ok |-> FALSE, err |-> msg]

UnexpectedEnd == "unexpected end of JSON input"

quoteChar(c) ==
    CASE c = "\n" -> "'\\n'"
      [] c = "\t" -> "'\\t'"
      [] c = "\r" -> "'\\r'"
      [] c = "\\" -> "'\\\\'"
      [] c = "'"  -> "'\\''"
      [] OTHER    -> "'" \o c \o "'"

SyntaxError(c, context) == ParseErr("invalid character " \o quoteChar(c) \o " " \o context)

RECURSIVE SkipSpace(_, _)
SkipSpace(s, i) ==
    IF i <= Len(s) /\ Char(s, i) \in JSONSpace THEN SkipSpace(s, i + 1) ELSE i

\* the bytes after an opening quote, up to the closing one; acc is the decoded string
RECURSIVE ScanString(_, _, _)
ScanString(s, j, acc) ==
    IF j > Len(s) THEN ParseErr(UnexpectedEnd)
    ELSE LET c == Char(s, j) IN
         CASE c = "\"" -> ParseOk(acc, j + 1)
           [] c = "\\" ->
                IF j + 1 > Len(s) THEN ParseErr(UnexpectedEnd)
                ELSE LET e == Char(s, j + 1) IN
                     CASE e = "\"" -> ScanString(s, j + 2, acc \o "\"")
                       [] e = "\\" -> ScanString(s, j + 2, acc \o "\\")
                       [] e = "/"  -> ScanString(s, j + 2, acc \o "/")
                       [] e = "n"  -> ScanString(s, j + 2, acc \o "\n")
                       [] e = "t"  -> ScanString(s, j + 2, acc \o "\t")
                       [] OTHER    -> SyntaxError(e, "in string escape code")
           [] c \in {"\n", "\t", "\r"} -> SyntaxError(c, "in string literal")
           [] OTHER -> ScanString(s, j + 1, acc \o c)

RECURSIVE ScanDigits(_, _, _)
ScanDigits(s, j, acc) ==
    IF j <= Len(s) /\ IsDigit(Char(s, j))
    THEN ScanDigits(s, j + 1, 10 * acc + DigitValue(Char(s, j)))
    ELSE ParseOk(JNum(acc), j)

\* a number starting at j: "0", or a non-zero digit and the digits after it
ScanNumber(s, j) ==
    IF Char(s, j) = "0" THEN ParseOk(JNum(0), j + 1) ELSE ScanDigits(s, j, 0)

\* true, false, null: s[j] is the literal's first byte
ScanLiteral(s, j, lit, v) ==
    LET bad == {k \in 2..Len(lit) : j + k - 1 > Len(s) \/ Char(s, j + k - 1) # Char(lit, k)}
    IN  IF bad = {} THEN ParseOk(v, j + Len(lit))
        ELSE LET k == CHOOSE x \in bad : \A y \in bad : x <= y IN
             IF j + k - 1 > Len(s) THEN ParseErr(UnexpectedEnd)
             ELSE SyntaxError(Char(s, j + k - 1),
                              "in literal " \o lit \o " (expecting '" \o Char(lit, k) \o "')")

RECURSIVE ParseValue(_, _), ObjectMembers(_, _, _, _), ArrayElements(_, _, _, _)
ParseValue(s, i) ==
    LET j == SkipSpace(s, i) IN
    IF j > Len(s) THEN ParseErr(UnexpectedEnd)
    ELSE LET c == Char(s, j) IN
         CASE c = "{"  -> ObjectMembers(s, j + 1, {}, TRUE)
           [] c = "["  -> ArrayElements(s, j + 1, <<>>, TRUE)
           [] c = "\"" -> LET r == ScanString(s, j + 1, "") IN
                          IF r.ok THEN ParseOk(JStr(r.v), r.i) ELSE r
           [] IsDigit(c) -> ScanNumber(s, j)
           [] c = "t"  -> ScanLiteral(s, j, "true", JBool(TRUE))
           [] c = "f"  -> ScanLiteral(s, j, "false", JBool(FALSE))
           [] c = "n"  -> ScanLiteral(s, j, "null", JNull)
           [] OTHER    -> SyntaxError(c, "looking for beginning of value")

\* after "{" (first) or after a "," inside an object; a repeated key keeps the last value
ObjectMembers(s, i, kv, first) ==
    LET j == SkipSpace(s, i) IN
    IF j > Len(s) THEN ParseErr(UnexpectedEnd)
    ELSE IF first /\ Char(s, j) = "}" THEN ParseOk(JObj(kv), j + 1)
    ELSE IF Char(s, j) # "\""
         THEN SyntaxError(Char(s, j), "looking for beginning of object key string")
    ELSE LET key == ScanString(s, j + 1, "") IN
         IF ~key.ok THEN key
         ELSE LET j2 == SkipSpace(s, key.i) IN
              IF j2 > Len(s) THEN ParseErr(UnexpectedEnd)
              ELSE IF Char(s, j2) # ":" THEN SyntaxError(Char(s, j2), "after object key")
              ELSE LET val == ParseValue(s, j2 + 1) IN
                   IF ~val.ok THEN val
                   ELSE LET j3 == SkipSpace(s, val.i) IN
                        IF j3 > Len(s) THEN ParseErr(UnexpectedEnd)
                        ELSE IF Char(s, j3) = ","
                             THEN ObjectMembers(s, j3 + 1, MapSet(kv, key.v, val.v), FALSE)
                        ELSE IF Char(s, j3) = "}"
                             THEN ParseOk(JObj(MapSet(kv, key.v, val.v)), j3 + 1)
                        ELSE SyntaxError(Char(s, j3), "after object key:value pair")

\* after "[" (first) or after a "," inside an array
ArrayElements(s, i, items, first) ==
    LET j == SkipSpace(s, i) IN
    IF j > Len(s) THEN ParseErr(UnexpectedEnd)
    ELSE IF first /\ Char(s, j) = "]" THEN ParseOk(JArr(items), j + 1)
    ELSE LET val == ParseValue(s, j) IN
         IF ~val.ok THEN val
         ELSE LET j3 == SkipSpace(s, val.i) IN
              IF j3 > Len(s) THEN ParseErr(UnexpectedEnd)
              ELSE IF Char(s, j3) = ","
                   THEN ArrayElements(s, j3 + 1, Append(items, val.v), FALSE)
              ELSE IF Char(s, j3) = "]" THEN ParseOk(JArr(Append(items, val.v)), j3 + 1)
              ELSE SyntaxError(Char(s, j3), "after array element")

\* json.Unmarshal: [ok |-> TRUE, v |-> value] or [ok |-> FALSE, err |-> err.Error()]
Unmarshal(data) ==
    LET r == ParseValue(data, 1) IN
    IF ~r.ok THEN r
    ELSE LET j == SkipSpace(data, r.i) IN
         IF j <= Len(data) THEN SyntaxError(Char(data, j), "after top-level value")
         ELSE [ok |-> TRUE, v |-> r.v]

-----------------------------------------------------------------------------
(* Lip Gloss styles (main.go:22-27).  Style.Render wraps its argument in   *)
(* the colour's escape sequence when the terminal has colours and leaves   *)
(* it as it is under the Ascii profile (no terminal, as in the tests).     *)
(* ESC stands for the byte 0x1b.                                           *)

ESC == "^["

ColorProfiles == {"Ascii", "ANSI256"}

StyleRender(color, str) ==
    IF colorProfile = "Ascii" THEN str
    ELSE ESC \o "[38;5;" \o color \o "m" \o str \o ESC \o "[0m"

keyStyle(str) == StyleRender("205", str)

stringStyle(str) == StyleRender("34", str)

numberStyle(str) == StyleRender("178", str)

boolStyle(str) == StyleRender("207", str)

nullStyle(str) == StyleRender("240", str)

indentation == "  "

-----------------------------------------------------------------------------
(* Helpers of main.go:155-164.                                             *)

formatJSONError(message, details) ==
    "{ \"error\": \"" \o message \o "\", \"details\": \"" \o details \o "\" }"

\* truncateString cutting only strings of more than length + 1 bytes
truncateString_OffByOne(str, length) ==
    IF Len(str) <= length + 1 THEN str ELSE Slice(str, 0, length) \o "..."

truncateString(str, length) ==
    IF Len(str) <= length THEN str ELSE Slice(str, 0, length) \o "..."

isJSON(data) == Unmarshal(data).ok

-----------------------------------------------------------------------------
(* renderJSON (main.go:175-212).  `for key, value := range v` visits the   *)
(* keys of a Go map in an order the runtime picks anew for every loop, so  *)
(* renderJSON(data, level) is the SET of strings the call can return: one  *)
(* string for a value without a map of two or more keys.                   *)

\* bytes.Buffer.Truncate(n): keep the first n bytes
BufTruncate(buf, n) == Slice(buf, 0, n)

RECURSIVE renderJSON(_, _), RangeMap(_, _), RangeSlice(_, _)
renderJSON(data, level) ==
    LET indent == Repeat(indentation, level) IN
    CASE data.t = "obj" ->
           { BufTruncate("{\n" \o body, Len("{\n" \o body) - 2) \o "\n" \o indent \o "}" :
               body \in RangeMap(data.kv, level) }
      [] data.t = "arr" ->
           { BufTruncate("[\n" \o body, Len("[\n" \o body) - 2) \o "\n" \o indent \o "]" :
               body \in RangeSlice(data.items, level) }
      [] data.t = "str"  -> { stringStyle("\"" \o data.s \o "\"") }
      [] data.t = "num"  -> { numberStyle(Itoa(data.n)) }
      [] data.t = "bool" -> { boolStyle(IF data.b THEN "true" ELSE "false") }
      [] data.t = "null" -> { nullStyle("null") }

\* what the loop over a map writes to buf, for every order of its keys
RangeMap(kv, level) ==
    IF kv = {} THEN {""}
    ELSE UNION { { Repeat(indentation, level) \o indentation
                     \o keyStyle("\"" \o e[1] \o "\"") \o ": " \o val \o ",\n" \o rest :
                   val \in renderJSON(e[2], level + 1), rest \in RangeMap(kv \ {e}, level) } :
                 e \in kv }

\* what the loop over a slice writes to buf
RangeSlice(items, level) ==
    IF items = <<>> THEN {""}
    ELSE { Repeat(indentation, level) \o indentation \o val \o ",\n" \o rest :
           val \in renderJSON(Head(items), level + 1), rest \in RangeSlice(Tail(items), level) }

\* prettyPrintJSON returning the text it could not parse along with the error
prettyPrintJSON_Partial(data) ==
    LET r == Unmarshal(data) IN
    IF ~r.ok
    THEN [outs |-> {data},
          err  |-> "{ \"error\": \"invalid JSON format\", \"details\": \"" \o r.err \o "\" }"]
    ELSE [outs |-> renderJSON(r.v, 0), err |-> ""]

\* prettyPrintJSON (main.go:167-173): [outs |-> the strings it can return, err |-> the
\* error's text, "" for nil]
prettyPrintJSON(data) ==
    LET r == Unmarshal(data) IN
    IF ~r.ok
    THEN [outs |-> {""},
          err  |-> "{ \"error\": \"invalid JSON format\", \"details\": \"" \o r.err \o "\" }"]
    ELSE [outs |-> renderJSON(r.v, 0), err |-> ""]

-----------------------------------------------------------------------------
(* net/url: url.ParseRequestURI(input), as far as isValidURL reads it:     *)
(* the error, the scheme and the host.  Covered: URLs of letters, digits   *)
(* and the characters : / . - ? (no userinfo, no escapes, no brackets).    *)

URLError(msg) == [ok |-> FALSE, err |-> msg, Scheme |-> "", Host |-> ""]

URLOk(scheme, host) == [ok |-> TRUE, err |-> "", Scheme |-> scheme, Host |-> host]

\* getScheme: [a-zA-Z][a-zA-Z0-9+-.]* before the first ":"
RECURSIVE getScheme(_, _)
getScheme(rawURL, i) ==
    IF i > Len(rawURL) THEN [err |-> "", scheme |-> "", rest |-> rawURL]
    ELSE LET c == Char(rawURL, i) IN
         IF IsLetter(c) THEN getScheme(rawURL, i + 1)
         ELSE IF IsDigit(c) \/ c \in {"+", "-", "."}
              THEN IF i = 1 THEN [err |-> "", scheme |-> "", rest |-> rawURL]
                   ELSE getScheme(rawURL, i + 1)
         ELSE IF c = ":"
              THEN IF i = 1 THEN [err |-> "missing protocol scheme", scheme |-> "", rest |-> ""]
                   ELSE [err |-> "", scheme |-> Slice(rawURL, 0, i - 1),
                         rest |-> Slice(rawURL, i, Len(rawURL))]
         ELSE [err |-> "", scheme |-> "", rest |-> rawURL]

\* validOptionalPort: "" or ":" and digits
validOptionalPort(port) ==
    port = "" \/ (Char(port, 1) = ":" /\ \A i \in 2..Len(port) : IsDigit(Char(port, i)))

\* the last ":" of host and what follows it, "" when host has no ":"
ColonPort(host) ==
    LET at == {i \in 1..Len(host) : Char(host, i) = ":"} IN
    IF at = {} THEN ""
    ELSE Slice(host, (CHOOSE i \in at : \A j \in at : j <= i) - 1, Len(host))

ParseRequestURI(rawURL) ==
    IF \E i \in 1..Len(rawURL) : Char(rawURL, i) \in {"\n", "\t", "\r"}
    THEN URLError("net/url: invalid control character in URL")
    ELSE IF rawURL = "" THEN URLError("empty url")
    ELSE IF rawURL = "*" THEN URLOk("", "")
    ELSE LET g == getScheme(rawURL, 1) IN
    IF g.err # "" THEN URLError(g.err)
    ELSE LET scheme == ToLower(g.scheme)
             q      == Index(g.rest, "?")
             rest   == IF q = 0 THEN g.rest ELSE Slice(g.rest, 0, q - 1)
         IN
         IF ~HasPrefix(rest, "/")
         THEN IF scheme # "" THEN URLOk(scheme, "")               \* an opaque URL
              ELSE URLError("invalid URI for request")
         ELSE IF scheme # "" /\ HasPrefix(rest, "//")
         THEN LET after     == Slice(rest, 2, Len(rest))
                  slash     == Index(after, "/")
                  authority == IF slash = 0 THEN after ELSE Slice(after, 0, slash - 1)
              IN  IF ~validOptionalPort(ColonPort(authority))
                  THEN URLError("invalid port " \o ColonPort(authority) \o " after host")
                  ELSE URLOk(scheme, authority)
         ELSE URLOk(scheme, "")

\* isValidURL without the test of the host
isValidURL_NoHost(input) ==
    LET parsedURL == ParseRequestURI(input) IN
    parsedURL.ok /\ parsedURL.Scheme # ""

\* isValidURL (main.go:145-148)
isValidURL(input) ==
    LET parsedURL == ParseRequestURI(input) IN
    parsedURL.ok /\ parsedURL.Scheme # "" /\ parsedURL.Host # ""

-----------------------------------------------------------------------------
(* The network: what client.Get(url) returns (main.go:112).  An outcome is *)
(* a transport error or a response: its status code, its Content-Type     *)
(* header ("" when absent), the bytes io.ReadAll returns and the error it  *)
(* returns with them ("" for nil).                                         *)

TransportError(msg) == [kind |-> "error", err |-> msg]

Response(code, ctype, body, readErr) ==
    [kind |-> "response", StatusCode |-> code, ContentType |-> ctype,
     Body |-> body, readErr |-> readErr]

NoOutcome == [kind |-> "none"]

StatusOK == 200

\* 103 bytes, more than the 100 that FetchData keeps of a body that is not JSON
LongBody ==
    "0123456789012345678901234567890123456789012345678901234567890123456789012345678901234567890123456789abc"

JSONBodies ==
    { "{\"key\": \"value\"}", "{}", "{\"a\": [], \"b\": 1}", "{\"error\": \"quota\"}",
      "{\n  \"a\": 1\n}" }

OtherBodies == { "", "{invalid json}", "<html>not json</html>", LongBody }

Bodies == JSONBodies \cup OtherBodies

ContentTypes ==
    { "application/json", "application/json; charset=utf-8", "text/html",
      "text/plain; profile=application/json" }

Responses ==
    { Response(StatusOK, ct, b, "") : ct \in ContentTypes, b \in Bodies }
      \cup { Response(code, ct, b, "") :
               code \in {201, 404}, ct \in {"application/json", ""},
               b \in {"", "{\"key\": \"value\"}"} }
      \cup { Response(StatusOK, ct, b, "unexpected EOF") :
               ct \in {"application/json", "text/html"}, b \in {"{\"key\": \"va"} }

\* client.Get: the transport refuses every scheme but http and https
ClientGet(url) ==
    LET scheme == ParseRequestURI(url).Scheme IN
    IF scheme \notin {"http", "https"}
    THEN { TransportError("Get \"" \o url \o "\": unsupported protocol scheme \""
                          \o scheme \o "\"") }
    ELSE { TransportError("Get \"" \o url \o "\": context deadline exceeded") }
           \cup Responses

\* FetchData with the Content-Type test moved before the status test
FetchData_TypeFirst(url, outcome) ==
    IF outcome.kind = "error"
    THEN [data |-> formatJSONError("failed to make the request", outcome.err),
          bodyRead |-> FALSE, jsonChecked |-> FALSE]
    ELSE IF ~Contains(outcome.ContentType, "application/json")
    THEN [data |-> formatJSONError("response is not JSON", truncateString(outcome.Body, 100)),
          bodyRead |-> TRUE, jsonChecked |-> FALSE]
    ELSE IF outcome.StatusCode # StatusOK
    THEN [data |-> formatJSONError("received non-200 response code", Itoa(outcome.StatusCode)),
          bodyRead |-> FALSE, jsonChecked |-> FALSE]
    ELSE IF outcome.readErr # ""
    THEN [data |-> formatJSONError("failed to read the response body", outcome.readErr),
          bodyRead |-> TRUE, jsonChecked |-> FALSE]
    ELSE IF ~isJSON(outcome.Body)
    THEN [data |-> formatJSONError("invalid JSON format", outcome.Body),
          bodyRead |-> TRUE, jsonChecked |-> TRUE]
    ELSE [data |-> outcome.Body, bodyRead |-> TRUE, jsonChecked |-> TRUE]

\* FetchData (main.go:111-142) on the outcome of client.Get: the string it returns
\* (its error is always nil), whether it read the body and whether it called isJSON
FetchData(url, outcome) ==
    IF outcome.kind = "error"
    THEN [data |-> formatJSONError("failed to make the request", outcome.err),
          bodyRead |-> FALSE, jsonChecked |-> FALSE]
    ELSE IF outcome.StatusCode # StatusOK
    THEN [data |-> formatJSONError("received non-200 response code", Itoa(outcome.StatusCode)),
          bodyRead |-> FALSE, jsonChecked |-> FALSE]
    ELSE IF ~Contains(outcome.ContentType, "application/json")
    THEN [data |-> formatJSONError("response is not JSON", truncateString(outcome.Body, 100)),
          bodyRead |-> TRUE, jsonChecked |-> FALSE]
    ELSE IF outcome.readErr # ""
    THEN [data |-> formatJSONError("failed to read the response body", outcome.readErr),
          bodyRead |-> TRUE, jsonChecked |-> FALSE]
    ELSE IF ~isJSON(outcome.Body)
    THEN [data |-> formatJSONError("invalid JSON format", outcome.Body),
          bodyRead |-> TRUE, jsonChecked |-> TRUE]
    ELSE [data |-> outcome.Body, bodyRead |-> TRUE, jsonChecked |-> TRUE]

-----------------------------------------------------------------------------
(* The Bubble Tea program (main.go:40-94).                                 *)

URLs ==
    { "", "not-a-url", "/path", "http://", "ftp://example.com", "https://example.com" }

\* the record of an Update call on the Enter key
Entered(input, gate, outcome, f, printed) ==
    [op |-> "enter", input |-> input, method |-> methodInput, gate |-> gate,
     requested |-> outcome.kind # "none",
     outcome |-> outcome, bodyRead |-> f.bodyRead, jsonChecked |-> f.jsonChecked,
     data |-> f.data, printed |-> printed]

NotFetched == [data |-> "", bodyRead |-> FALSE, jsonChecked |-> FALSE]

\* initialModel (main.go:46-54)
initialModel ==
    /\ urlInput = ""
    /\ text = ""
    /\ quitting = FALSE

\* Update, case "enter", from the call of FetchData on (main.go:72-83)
FetchAndShow(input, gate) ==
    \E outcome \in ClientGet(input) :
        LET f == FetchData(input, outcome) IN
        IF Contains(f.data, "\"error\"")
        THEN /\ text' = f.data
             /\ last' = Entered(input, gate, outcome, f, FALSE)
        ELSE LET p == prettyPrintJSON(f.data) IN
             /\ last' = Entered(input, gate, outcome, f, TRUE)
             /\ IF p.err = "" THEN text' \in p.outs
                ELSE text' = "{ \"error\": \"error formatting JSON\", \"details\": \""
                             \o p.err \o "\" }"

\* Update, case "enter" (main.go:65-83)
UpdateEnter ==
    /\ revision = "url"
    /\ ~quitting
    /\ IF ~isValidURL(urlInput)
       THEN /\ text' = "{ \"error\": \"invalid URL, please try again\" }"
            /\ last' = Entered(urlInput, "url", NoOutcome, NotFetched, FALSE)
       ELSE FetchAndShow(urlInput, "")
    /\ UNCHANGED <<revision, colorProfile, urlInput, methodInput, quitting, call>>

\* Update, case "ctrl+c" (main.go:85-87)
UpdateCtrlC ==
    /\ ~quitting
    /\ quitting' = TRUE
    /\ UNCHANGED <<revision, colorProfile, urlInput, methodInput, text, last, call>>

\* Update, any other key: the text input takes it (main.go:91-93); the keys typed
\* between two Enter presses leave some value in the field
UpdateKeys ==
    /\ ~quitting
    /\ \E input \in URLs : urlInput' = input
    /\ UNCHANGED <<revision, colorProfile, methodInput, text, quitting, last, call>>

-----------------------------------------------------------------------------
(* The revision with a method field, which main_test.go tests              *)
(* (TestIsValidHTTPMethod, TestUpdateFunction): Enter validates the URL,   *)
(* then the method, and only then issues the request.  Its Update is not   *)
(* among the sources; the response is handled as in main.go.               *)

httpMethods == {"GET", "POST", "PUT", "DELETE", "PATCH"}

isValidHTTPMethod(method) == ToUpper(method) \in httpMethods

MethodInputs == {"GET", "patch", "FETCH", ""}

UpdateEnterMethod ==
    /\ revision = "method"
    /\ ~quitting
    /\ IF ~isValidURL(urlInput)
       THEN /\ text' = "{ \"error\": \"invalid URL, please try again\" }"
            /\ last' = Entered(urlInput, "url", NoOutcome, NotFetched, FALSE)
       ELSE IF ~isValidHTTPMethod(methodInput)
       THEN /\ text' = "{ \"error\": \"invalid HTTP method\" }"
            /\ last' = Entered(urlInput, "method", NoOutcome, NotFetched, FALSE)
       ELSE FetchAndShow(urlInput, "")
    /\ UNCHANGED <<revision, colorProfile, urlInput, methodInput, quitting, call>>

UpdateMethodKeys ==
    /\ revision = "method"
    /\ ~quitting
    /\ \E method \in MethodInputs : methodInput' = method
    /\ UNCHANGED <<revision, colorProfile, urlInput, text, quitting, last, call>>

-----------------------------------------------------------------------------
(* The program: one of the two revisions, on a terminal with or without    *)
(* colours.                                                                *)

NoCall == [fn |-> "none"]

Init ==
    /\ revision \in {"url", "method"}
    /\ colorProfile \in ColorProfiles
    /\ initialModel
    /\ methodInput = "GET"
    /\ last = [op |-> "init"]
    /\ call = NoCall

Next ==
    \/ UpdateEnter
    \/ UpdateEnterMethod
    \/ UpdateKeys
    \/ UpdateMethodKeys
    \/ UpdateCtrlC

Spec == Init /\ [][Next]_vars

-----------------------------------------------------------------------------
(* The HTML formatter of the revision with a method field                  *)
(* (formatHTMLText, tested by main_test.go:66-72).  Its code is not among  *)
(* the sources: it is modelled from section 4.2 of the specification, on   *)
(* the node tree that html.Parse builds.                                   *)

DocumentNode(kids) == [type |-> "document", kids |-> kids]

ElementNode(tag, kids) == [type |-> "element", tag |-> tag, kids |-> kids]

TextNode(data) == [type |-> "text", data |-> data]

HTMLSpace == {" ", "\t", "\r", "\n"}

RECURSIVE TrimLeft(_)
TrimLeft(s) ==
    IF s # "" /\ Char(s, 1) \in HTMLSpace THEN TrimLeft(Slice(s, 1, Len(s))) ELSE s

RECURSIVE TrimRight(_)
TrimRight(s) ==
    IF s # "" /\ Char(s, Len(s)) \in HTMLSpace THEN TrimRight(Slice(s, 0, Len(s) - 1)) ELSE s

TrimSpace(s) == TrimRight(TrimLeft(s))

IsWrapper(n) == n.type = "document" \/ (n.type = "element" /\ n.tag = "head")

Collapses(n) == n.type = "element" /\ Len(n.kids) = 1 /\ n.kids[1].type = "text"

RECURSIVE formatNode(_, _), formatNodes(_, _)
\* formatNode with the children of a wrapper one level deeper than the wrapper
formatNode_WrapperIndents(n, level) ==
    LET indent == Repeat(indentation, level) IN
    IF IsWrapper(n) THEN formatNodes(n.kids, level + 1)
    ELSE IF Collapses(n)
    THEN indent \o "<" \o n.tag \o ">" \o TrimSpace(n.kids[1].data) \o "</" \o n.tag \o ">\n"
    ELSE IF n.type = "element"
    THEN indent \o "<" \o n.tag \o ">\n" \o formatNodes(n.kids, level + 1)
           \o indent \o "</" \o n.tag \o ">\n"
    ELSE IF TrimSpace(n.data) # "" THEN indent \o TrimSpace(n.data) \o "\n" ELSE ""

\* formatNode without the collapsing rule: every element is written as a block
formatNode_NoCollapse(n, level) ==
    LET indent == Repeat(indentation, level) IN
    IF IsWrapper(n) THEN formatNodes(n.kids, level)
    ELSE IF n.type = "element"
    THEN indent \o "<" \o n.tag \o ">\n" \o formatNodes(n.kids, level + 1)
           \o indent \o "</" \o n.tag \o ">\n"
    ELSE IF TrimSpace(n.data) # "" THEN indent \o TrimSpace(n.data) \o "\n" ELSE ""

formatNode(n, level) ==
    LET indent == Repeat(indentation, level) IN
    IF IsWrapper(n) THEN formatNodes(n.kids, level)
    ELSE IF n.type = "element"
    THEN IF Collapses(n)
         THEN indent \o "<" \o n.tag \o ">" \o TrimSpace(n.kids[1].data)
                \o "</" \o n.tag \o ">\n"
         ELSE indent \o "<" \o n.tag \o ">\n" \o formatNodes(n.kids, level + 1)
                \o indent \o "</" \o n.tag \o ">\n"
    ELSE IF TrimSpace(n.data) # "" THEN indent \o TrimSpace(n.data) \o "\n" ELSE ""

\* the children of a node, in order
formatNodes(kids, level) ==
    IF kids = <<>> THEN "" ELSE formatNode(Head(kids), level) \o formatNodes(Tail(kids), level)

HelloHTML == "<html><body><p>Hello, World!</p></body></html>"

\* html.Parse: the parser supplies the html, head and body elements a text leaves out
htmlParse(rawText) ==
    CASE rawText = HelloHTML ->
           DocumentNode(<<ElementNode("html",
               <<ElementNode("head", <<>>),
                 ElementNode("body", <<ElementNode("p", <<TextNode("Hello, World!")>>)>>)>>)>>)
      [] rawText = "<html><head><title>T</title></head><body> <p>a</p></body></html>" ->
           DocumentNode(<<ElementNode("html",
               <<ElementNode("head", <<ElementNode("title", <<TextNode("T")>>)>>),
                 ElementNode("body", <<TextNode(" "), ElementNode("p", <<TextNode("a")>>)>>)>>)>>)
      [] rawText = "<html>not json</html>" ->
           DocumentNode(<<ElementNode("html",
               <<ElementNode("head", <<>>), ElementNode("body", <<TextNode("not json")>>)>>)>>)
      [] rawText = "" ->
           DocumentNode(<<ElementNode("html",
               <<ElementNode("head", <<>>), ElementNode("body", <<>>)>>)>>)
      [] OTHER ->                                       \* a text without markup
           DocumentNode(<<ElementNode("html",
               <<ElementNode("head", <<>>), ElementNode("body", <<TextNode(rawText)>>)>>)>>)

formatHTMLText(rawText) == formatNode(htmlParse(rawText), 0)

-----------------------------------------------------------------------------
(* Direct calls of the pure helpers, as the unit tests make them: the      *)
(* input is drawn at the start and one step applies the function.          *)

MaxEntries == 2      \* entries of a JSON array or object
MaxLevel == 1        \* the level argument of renderJSON and formatNode
MaxKids == 2         \* children of an HTML element
MaxLength == 6       \* the length argument of truncateString

KeyNames == <<"a", "b", "c", "d">>

Keys == {KeyNames[i] : i \in 1..MaxEntries}

Scalars == {JNull, JBool(TRUE), JNum(12), JStr("a"), JStr(""), JStr("a\"b")}

InnerValues == {JObj({}), JArr(<<>>), JObj({<<"a", JNum(12)>>}), JArr(<<JNull>>)}

ArraysOver(children) ==
    UNION { {JArr(items) : items \in [1..n -> children]} : n \in 0..MaxEntries }

ObjectsOver(children) ==
    UNION { {JObj({<<k, f[k]>> : k \in K}) : f \in [K -> children]} : K \in SUBSET Keys }

JSONValues ==
    Scalars \cup ArraysOver(Scalars \cup InnerValues) \cup ObjectsOver(Scalars \cup InnerValues)

JSONTexts ==
    Bodies \cup { "[]", "[1, true, null]", "null", " 12 ", "\"\"", "\"a\\\"b\"",
                  "{\"a\":1,}", "[1 2]", "tru", "\"abc", "{\"a\" 1}", "nul!" }

TruncateInputs == {"", "short", "this is a long string", LongBody}

HTMLTextData == {"Hello, World!", "  hi ", " "}

HTMLLeaves == {TextNode(d) : d \in HTMLTextData}

ElementsOver(tags, children) ==
    UNION { {ElementNode(tag, kids) : tag \in tags, kids \in [1..n -> children]} :
            n \in 0..MaxKids }

InnerElements ==
    { ElementNode("p", <<TextNode("Hello, World!")>>), ElementNode("p", <<>>),
      ElementNode("head", <<TextNode("  hi ")>>),
      ElementNode("div", <<TextNode("a"), TextNode(" ")>>) }

HTMLNodes ==
    HTMLLeaves
      \cup ElementsOver({"p", "head"}, HTMLLeaves)
      \cup ElementsOver({"body", "head"}, HTMLLeaves \cup InnerElements)
      \cup {DocumentNode(<<n>>) : n \in ElementsOver({"html"}, InnerElements)}

HTMLTexts ==
    { HelloHTML, "<html><head><title>T</title></head><body> <p>a</p></body></html>",
      "Hello, plain text!", "" }

Calls ==
    { [fn |-> "renderJSON", data |-> v, level |-> l, done |-> FALSE, out |-> ""] :
        v \in JSONValues, l \in 0..MaxLevel }
      \cup { [fn |-> "prettyPrintJSON", input |-> d, done |-> FALSE, out |-> "", err |-> ""] :
               d \in JSONTexts }
      \cup { [fn |-> "truncateString", str |-> x, length |-> l, done |-> FALSE, out |-> ""] :
               x \in TruncateInputs, l \in (0..MaxLength) \cup {10, 100} }
      \cup { [fn |-> "formatNode", node |-> n, level |-> l, done |-> FALSE, out |-> ""] :
               n \in HTMLNodes, l \in 0..MaxLevel }
      \cup { [fn |-> "formatHTMLText", rawText |-> x, done |-> FALSE, out |-> ""] :
               x \in HTMLTexts }

InitCall ==
    /\ revision = "url"
    /\ colorProfile \in ColorProfiles
    /\ initialModel
    /\ methodInput = "GET"
    /\ last = [op |-> "init"]
    /\ call \in Calls

Returns(out) == call' = [call EXCEPT !.done = TRUE, !.out = out]

Untouched == UNCHANGED <<revision, colorProfile, urlInput, methodInput, text, quitting, last>>

CallRenderJSON ==
    /\ call.fn = "renderJSON" /\ ~call.done
    /\ \E out \in renderJSON(call.data, call.level) : Returns(out)
    /\ Untouched

CallPrettyPrintJSON ==
    /\ call.fn = "prettyPrintJSON" /\ ~call.done
    /\ LET p == prettyPrintJSON(call.input) IN
       \E out \in p.outs : call' = [call EXCEPT !.done = TRUE, !.out = out, !.err = p.err]
    /\ Untouched

CallTruncateString ==
    /\ call.fn = "truncateString" /\ ~call.done
    /\ Returns(truncateString(call.str, call.length))
    /\ Untouched

CallFormatNode ==
    /\ call.fn = "formatNode" /\ ~call.done
    /\ Returns(formatNode(call.node, call.level))
    /\ Untouched

CallFormatHTMLText ==
    /\ call.fn = "formatHTMLText" /\ ~call.done
    /\ Returns(formatHTMLText(call.rawText))
    /\ Untouched

NextCall ==
    \/ CallRenderJSON
    \/ CallPrettyPrintJSON
    \/ CallTruncateString
    \/ CallFormatNode
    \/ CallFormatHTMLText

SpecCall == InitCall /\ [][NextCall]_vars

-----------------------------------------------------------------------------
(* Properties of Update and FetchData                                      *)

\* the last Update call handled Enter and got a response from the server
GotResponse == last.op = "enter" /\ last.outcome.kind = "response"

\* the media type a Content-Type header declares: the text before the first ";"
MediaType(ctype) ==
    LET semi == Index(ctype, ";") IN
    ToLower(TrimSpace(IF semi = 0 THEN ctype ELSE Slice(ctype, 0, semi - 1)))

DeclaresJSON(ctype) ==
    MediaType(ctype) = "application/json" \/ HasSuffix(MediaType(ctype), "+json")

\* C1: Status-code gating.  After Enter, when the response's status code is not 200 the
\* text shown is the "received non-200 response code" document with the status code as
\* its detail, whatever the content type and the body are, and the body was neither
\* read nor parsed nor pretty-printed.
C1_StatusGating ==
    (GotResponse /\ last.outcome.StatusCode # 200) =>
        /\ text = "{ \"error\": \"received non-200 response code\", \"details\": \""
                    \o Itoa(last.outcome.StatusCode) \o "\" }"
        /\ last.data = text
        /\ ~last.bodyRead
        /\ ~last.jsonChecked
        /\ ~last.printed

\* a 404 whose header and body are those of a good JSON answer
C1_Witness ==
    /\ GotResponse
    /\ last.outcome.StatusCode = 404
    /\ last.outcome.ContentType = "application/json"
    /\ last.outcome.Body = "{\"key\": \"value\"}"
    /\ text = "{ \"error\": \"received non-200 response code\", \"details\": \"404\" }"

\* C2: Content-type gating.  After Enter, when a 200 response's Content-Type declares
\* no JSON media type, the body is not given to the JSON parser or renderer, even when
\* it is well-formed JSON: the text shown is the "response is not JSON" document or the
\* text formatter's output.
C2_DeclaredTypeGovernsRouting ==
    (GotResponse /\ last.outcome.StatusCode = 200 /\ ~DeclaresJSON(last.outcome.ContentType)) =>
        /\ ~last.jsonChecked
        /\ ~last.printed
        /\ \/ HasPrefix(text, "{ \"error\": \"response is not JSON\", \"details\": \"")
           \/ text = truncateString(formatHTMLText(last.outcome.Body), 2000)

\* C3: JSON success routing.  After Enter, when the response has status 200, a JSON
\* content type and a well-formed JSON body (read without error), the text shown is
\* renderJSON's output for the parsed body, whatever keys and strings the body holds.
C3_JSONSuccessRouting ==
    (/\ GotResponse
     /\ last.outcome.StatusCode = 200
     /\ DeclaresJSON(last.outcome.ContentType)
     /\ last.outcome.readErr = ""
     /\ last.outcome.Body \in JSONBodies) =>
        /\ last.printed
        /\ text \in renderJSON(Unmarshal(last.outcome.Body).v, 0)

-----------------------------------------------------------------------------
(* Properties of the JSON pretty-printer                                   *)

Rendered == call.fn = "renderJSON" /\ call.done

IsContainer(v) == v.t \in {"obj", "arr"}

Children(v) == IF v.t = "obj" THEN {e[2] : e \in v.kv} ELSE {v.items[i] : i \in 1..Len(v.items)}

EntryCount(v) == IF v.t = "obj" THEN Cardinality(v.kv) ELSE Len(v.items)

IsEmptyContainer(v) == IsContainer(v) /\ EntryCount(v) = 0

\* the lines of a text: the pieces between its line breaks
RECURSIVE Lines(_)
Lines(s) ==
    LET nl == Index(s, "\n") IN
    IF nl = 0 THEN <<s>>
    ELSE <<Slice(s, 0, nl - 1)>> \o Lines(Slice(s, nl, Len(s)))

\* C4: Empty-container edge case.  renderJSON of an empty object returns exactly "{}"
\* and of an empty array exactly "[]", at every level.
C4_EmptyContainers ==
    (Rendered /\ IsEmptyContainer(call.data)) =>
        call.out = (IF call.data.t = "obj" THEN "{}" ELSE "[]")

\* C5: JSON layout.  A non-empty object or array rendered at level L starts with its
\* opening bracket and a line break and ends, without a line break, with a line that
\* holds 2*L spaces and the closing bracket.  When each entry fits on a line (a scalar
\* or an empty container) there is one line per entry between the two, indented by
\* 2*(L+1) spaces, each but the last ending with a comma.
C5_Layout ==
    (Rendered /\ IsContainer(call.data) /\ ~IsEmptyContainer(call.data)) =>
        LET open   == IF call.data.t = "obj" THEN "{" ELSE "["
            close  == IF call.data.t = "obj" THEN "}" ELSE "]"
            n      == EntryCount(call.data)
            lines  == Lines(call.out)
            margin == Repeat(" ", 2 * (call.level + 1))
        IN  /\ lines[1] = open
            /\ Len(lines) >= n + 2
            /\ lines[Len(lines)] = Repeat(" ", 2 * call.level) \o close
            /\ (\A c \in Children(call.data) : ~IsContainer(c) \/ IsEmptyContainer(c)) =>
                 /\ Len(lines) = n + 2
                 /\ \A i \in 2..(n + 1) :
                      /\ HasPrefix(lines[i], margin)
                      /\ Len(lines[i]) > Len(margin)
                      /\ Char(lines[i], Len(margin) + 1) # " "
                      /\ (i <= n) <=> HasSuffix(lines[i], ",")

\* the well-formed JSON texts among JSONTexts
WellFormedTexts ==
    JSONBodies \cup {"[]", "[1, true, null]", "null", " 12 ", "\"\"", "\"a\\\"b\""}

PrettyPrinted == call.fn = "prettyPrintJSON" /\ call.done

\* C6: Invalid JSON is all-or-nothing.  prettyPrintJSON of a text that is not well-formed
\* JSON returns the empty string and an error whose text is the "invalid JSON format"
\* document with the parser's message as its detail; of a well-formed text it returns a
\* non-empty string and no error.
C6_AllOrNothing ==
    PrettyPrinted =>
        IF call.input \in WellFormedTexts
        THEN call.out # "" /\ call.err = ""
        ELSE /\ call.out = ""
             /\ ~Unmarshal(call.input).ok
             /\ call.err = "{ \"error\": \"invalid JSON format\", \"details\": \""
                             \o Unmarshal(call.input).err \o "\" }"

\* the test's invalid text, refused with the parser's message
C6_Witness ==
    /\ PrettyPrinted
    /\ call.input = "{invalid json}"
    /\ call.out = ""
    /\ call.err = "{ \"error\": \"invalid JSON format\", \"details\": \"invalid character 'i' looking for beginning of object key string\" }"

-----------------------------------------------------------------------------
(* Properties of truncateString                                            *)

Truncated == call.fn = "truncateString" /\ call.done

\* C8: Truncation boundary.  truncateString(s, max) returns s when len(s) <= max;
\* otherwise the result has length max + 3, starts with the first max bytes of s and
\* ends with "...".
C8_TruncationBoundary ==
    Truncated =>
        IF Len(call.str) <= call.length
        THEN call.out = call.str
        ELSE /\ Len(call.out) = call.length + 3
             /\ SubSeq(call.out, 1, call.length) = SubSeq(call.str, 1, call.length)
             /\ SubSeq(call.out, call.length + 1, call.length + 3) = "..."

\* the test's long string, cut after ten bytes
C8_Witness ==
    /\ Truncated
    /\ call.str = "this is a long string"
    /\ call.length = 10
    /\ call.out = "this is a ..."

-----------------------------------------------------------------------------
(* Properties of the HTML formatter                                        *)

FormattedNode == call.fn = "formatNode" /\ call.done

\* what the claim says of an element n formatted at a level, given the output
ElementRule(n, level, out) ==
    LET indent == Repeat(" ", 2 * level) IN
    IF Len(n.kids) = 1 /\ n.kids[1].type = "text"
    THEN out = indent \o "<" \o n.tag \o ">" \o TrimSpace(n.kids[1].data)
                 \o "</" \o n.tag \o ">\n"
    ELSE out = indent \o "<" \o n.tag \o ">\n" \o formatNodes(n.kids, level + 1)
                 \o indent \o "</" \o n.tag \o ">\n"

HelloFormatted == "<html>\n  <body>\n    <p>Hello, World!</p>\n  </body>\n</html>\n"

ExampleRule ==
    (call.fn = "formatHTMLText" /\ call.done /\ call.rawText = HelloHTML) =>
        call.out = HelloFormatted

\* C7 as stated: every element with exactly one text child is written on one line,
\* every other element as an opening line, its children one level deeper and a closing
\* line; the Hello, World! document formats to the text of the test.
C7_ElementRendering ==
    /\ (FormattedNode /\ call.node.type = "element") =>
           ElementRule(call.node, call.level, call.out)
    /\ ExampleRule

\* C7, amended: the same, for every element but head.
C7_ElementRenderingButHead ==
    /\ (FormattedNode /\ call.node.type = "element" /\ call.node.tag # "head") =>
           ElementRule(call.node, call.level, call.out)
    /\ ExampleRule

\* the Hello, World! document of the test, formatted
C7_Witness ==
    /\ call.fn = "formatHTMLText" /\ call.done
    /\ call.rawText = HelloHTML
    /\ call.out = HelloFormatted

-----------------------------------------------------------------------------
(* Properties of the error documents and of the input validation           *)

ErrorMessages ==
    { "invalid URL, please try again", "failed to make the request",
      "received non-200 response code", "response is not JSON", "invalid JSON format",
      "failed to read the response body", "error formatting JSON" }

\* the last Enter ended in one of the failures the claim lists
Failed ==
    /\ last.op = "enter"
    /\ \/ last.gate = "url"
       \/ last.outcome.kind = "error"
       \/ /\ last.outcome.kind = "response"
          /\ \/ last.outcome.StatusCode # 200
             \/ ~DeclaresJSON(last.outcome.ContentType)
             \/ last.outcome.readErr # ""
             \/ last.outcome.Body \notin JSONBodies

\* { "error": "<message>", "details": "<detail>" } on one line, not holding another
\* error document
IsErrorDocument(doc) ==
    /\ \E message \in ErrorMessages :
          HasPrefix(doc, "{ \"error\": \"" \o message \o "\", \"details\": \"")
    /\ HasSuffix(doc, "\" }")
    /\ ~Contains(doc, "\n")
    /\ ~Contains(Slice(doc, 1, Len(doc)), "{ \"error\":")

\* C9: Uniform error document.  Every failure shown after Enter is a one-line document
\* { "error": "<message>", "details": "<detail>" } with both fields, its message from
\* the table of error kinds, and no error document inside it.
C9_UniformErrorDocument == Failed => IsErrorDocument(text)

InvalidURLInputs == {"", "not-a-url", "/path", "http://"}

InvalidMethodInputs == {"FETCH", ""}

-----------------------------------------------------------------------------
(* Properties of renderJSON as a function: its output read back, and two   *)
(* calls compared                                                          *)

\* a rendered text without the colour sequences StyleRender put around its tokens
RECURSIVE StripStyle(_)
StripStyle(s) ==
    LET e == Index(s, ESC) IN
    IF e = 0 THEN s
    ELSE LET rest == Slice(s, e - 1 + Len(ESC), Len(s))
             m    == Index(rest, "m")
         IN Slice(s, 0, e - 1) \o StripStyle(Slice(rest, m, Len(rest)))

\* C11: Re-render stability.  For every JSON value v, strings with a quote character
\* included, renderJSON(v, 0) without its style markers is well-formed JSON text, and
\* parsing it gives a value structurally equal to v.
C11_RerenderStability ==
    (Rendered /\ call.level = 0) =>
        LET r == Unmarshal(StripStyle(call.out)) IN r.ok /\ r.v = call.data

\* C12: Referential transparency.  Two calls of renderJSON with the same value and
\* level return the identical string: the string a call returned is the only one a
\* call with these arguments can return, an object with two or more keys included.
C12_ReferentialTransparency ==
    Rendered => \A other \in renderJSON(call.data, call.level) : other = call.out

-----------------------------------------------------------------------------
(* Properties of the wrapper nodes of the HTML formatter                   *)

\* the children of a node, each formatted on its own at a level, one after another
RECURSIVE EachAt(_, _)
EachAt(kids, level) ==
    IF kids = <<>> THEN "" ELSE formatNode(Head(kids), level) \o EachAt(Tail(kids), level)

IsTransparent(n) == n.type = "document" \/ (n.type = "element" /\ n.tag = "head")

\* C13: HTML wrapper transparency.  The Document node and a head element emit no tag
\* line of their own and their children are formatted at the wrapper's own level, so
\* the output is that of the children alone; a text node that is not collapsed into its
\* parent and is empty once trimmed emits nothing.
C13_WrapperTransparency ==
    FormattedNode =>
        /\ IsTransparent(call.node) =>
              /\ call.out = EachAt(call.node.kids, call.level)
              /\ ~Contains(call.out, "<head>") /\ ~Contains(call.out, "</head>")
        /\ (call.node.type = "text" /\ call.node.data \in {"", " ", "\n", " \n\t "}) =>
              call.out = ""

\* a head element with a text child, formatted one level deep: the text alone, at the
\* level of the head
C13_Witness ==
    /\ FormattedNode
    /\ call.node = ElementNode("head", <<TextNode("  hi ")>>)
    /\ call.level = 1
    /\ call.out = "  hi\n"

=============================================================================
